---------------------------- MODULE SideEffects ----------------------------
(***************************************************************************)
(* The delivery outbox, and two services that act outside the database:    *)
(* the files in R2 and the mails of an email provider.  They share no      *)
(* state and their steps commute; `service` says whose behaviour this is,  *)
(* and the others stay where they begin.                                   *)
(***************************************************************************)
EXTENDS DeliveryOutbox

CONSTANTS
  FileSlots, FileRequestBound, FileFaultBound, OverlayBound,
  MailWorkers, MailRequestBound, MailExpiryBound, MailFaultBound

VARIABLES
  service,
  \* FileService
  doc, primary, upload, stored, renditions, infected, url, overlay, req, etags, fileRequests,
  fileFaults, requested, ackLost, overtaken, late, replaced,
  \* EmailNotifications
  mail, version, delivery, issued, expired, accepted, deliveries, mailFaults, overlapped

Files == INSTANCE FileService WITH
  started <- fileRequests, faults <- fileFaults,
  Requests <- FileSlots, RequestBound <- FileRequestBound, FaultBound <- FileFaultBound

Emails == INSTANCE EmailNotifications WITH
  record <- mail, request <- delivery, started <- deliveries, faults <- mailFaults,
  Workers <- MailWorkers, RequestBound <- MailRequestBound, ExpiryBound <- MailExpiryBound,
  FaultBound <- MailFaultBound

fileVars == <<doc, primary, upload, stored, renditions, infected, url, overlay, req, etags,
              fileRequests, fileFaults, requested, ackLost, overtaken, late, replaced>>
mailVars == <<mail, version, delivery, issued, expired, accepted, deliveries, mailFaults,
              overlapped>>

SideEffectsInit ==
  /\ service \in {"outbox", "files", "emails"}
  /\ Init
  /\ Files!Init
  /\ service # "files" => ~infected
  /\ Emails!Init

SideEffectsNext ==
  /\ UNCHANGED service
  /\ \/ /\ service = "outbox"
        /\ Next
        /\ UNCHANGED <<fileVars, mailVars>>
     \/ /\ service = "files"
        /\ Files!Next
        /\ UNCHANGED <<vars, mailVars>>
     \/ /\ service = "emails"
        /\ Emails!Next
        /\ UNCHANGED <<vars, fileVars>>

SideEffectsSpec == SideEffectsInit /\ [][SideEffectsNext]_<<service, vars, fileVars, mailVars>>

-----------------------------------------------------------------------------
\* FileService: an available file has its content.
ContentKept == service = "files" => Files!ContentKept

\* FileService: content the scanner rejects is never available, and kept only
\* while its completion is still to come.
InfectedRemoved == service = "files" => Files!InfectedRemoved

\* FileService: a rendition object is named by the file's manifest, or was
\* until the overlay changed.
RenditionsOwned == service = "files" => Files!RenditionsOwned

\* EmailNotifications: records are true, and only overlap, timeout or failure
\* sends a mail twice.
MailsAccounted == service = "emails" => Emails!MailsAccounted
=============================================================================
