---------------------------- MODULE MCScheduler ----------------------------
(* Instances of Scheduler for TLC. *)
EXTENDS Scheduler

CONSTANTS j1, j2, j3, j4

ThreeJobs == <<j1, j2, j3>>
FourJobs == <<j1, j2, j3, j4>>

\* plans of one hop
Office == <<<<"office", "probe">>>>
Browser == <<<<"browser">>>>
Encode == <<<<"transcode", "probe">>>>
\* plans of two hops: a mail becomes a page and is printed; a picture is
\* re-encoded and put into a document
MailPrint == <<<<"probe">>, <<"browser">>>>
PictureOffice == <<<<"transcode">>, <<"office">>>>

SomePlans == {Office, Encode, MailPrint}
ChainPlans == {MailPrint, PictureOffice, Browser, Office}
=============================================================================
