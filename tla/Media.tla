------------------------------- MODULE Media -------------------------------
(***************************************************************************)
(* Uploads and how long their links live: app/services/media.py,           *)
(* app/repositories/media.py, app/domain/media.py and the half of          *)
(* app/services/retention.py that forgets dead links.  A link belongs to   *)
(* the platform; the service remembers of it what it saw when the file was *)
(* uploaded.                                                               *)
(***************************************************************************)
EXTENDS Integers

CONSTANTS Urls,        \* links a brief may name
          Ttl,         \* days a link lives, as the platform publishes it
          MaxClock     \* bound: days that pass

ASSUME MediaAssumption == Ttl \in Nat \ {0} /\ MaxClock \in Nat

VARIABLES clock,    \* the day
          link,     \* the day each link stops working at the platform, 0: no such link
          record,   \* media_uploads: the day the service expects that, 0: no row
          upload    \* what each upload has reached

mediaVars == <<clock, link, record, upload>>

\* An upload awaits the platform, then the database.
UploadPoints == {"idle", "send", "record"}

MediaTypeOK ==
  /\ clock \in 0..MaxClock
  /\ link \in [Urls -> 0..(MaxClock + Ttl)]
  /\ record \in [Urls -> 0..(MaxClock + Ttl)]
  /\ upload \in [Urls -> UploadPoints]

MediaInit ==
  /\ clock = 0
  /\ link = [u \in Urls |-> 0]
  /\ record = [u \in Urls |-> 0]
  /\ upload = [u \in Urls |-> "idle"]

-----------------------------------------------------------------------------
(* MediaService.upload.                                                    *)

\* A file of a kind the platform takes (_kind_for), neither empty nor over the ceiling
\* of its kind (_read_bounded); any other is refused, which changes nothing.
BeginUpload(u) ==
  /\ upload[u] = "idle"
  /\ upload' = [upload EXCEPT ![u] = "send"]
  /\ UNCHANGED <<clock, link, record>>

\* The platform refuses the file; or takes it, and its answer is lost or has no
\* link in it (_url_of): then there is nothing to remember.
SendFile(u) ==
  /\ upload[u] = "send"
  /\ \/ upload' = [upload EXCEPT ![u] = "idle"] /\ UNCHANGED link
     \/ /\ link' = [link EXCEPT ![u] = clock + Ttl]
        /\ \E point \in {"record", "idle"} : upload' = [upload EXCEPT ![u] = point]
  /\ UNCHANGED <<clock, record>>

\* Mutant of Expiry: a day too generous.
ExpiryNextDay(day) == day + Ttl + 1

\* _ttl_of and MediaRepository.record: the link is expected to live ttl days from
\* now, also when the row was there already (ON CONFLICT).
Expiry(day) == day + Ttl

RecordUpload(u) ==
  /\ upload[u] = "record"
  /\ record' = [record EXCEPT ![u] = Expiry(clock)]
  /\ upload' = [upload EXCEPT ![u] = "idle"]
  /\ UNCHANGED <<clock, link>>

\* The process dies, or the client goes away.
AbandonUpload(u) ==
  /\ upload[u] # "idle"
  /\ upload' = [upload EXCEPT ![u] = "idle"]
  /\ UNCHANGED <<clock, link, record>>

-----------------------------------------------------------------------------
(* MediaRepository.purge_expired, and time.                                *)

\* DELETE ... WHERE expires_at <= cutoff
Purged(day) == day <= clock

Purge ==
  /\ record' = [u \in Urls |-> IF Purged(record[u]) THEN 0 ELSE record[u]]
  /\ UNCHANGED <<clock, link, upload>>

\* A day is long against an upload: it does not pass between its two writes.
Tick ==
  /\ clock < MaxClock /\ \A u \in Urls : upload[u] # "record"
  /\ clock' = clock + 1
  /\ UNCHANGED <<link, record, upload>>

UploadStep(u) == BeginUpload(u) \/ SendFile(u) \/ RecordUpload(u) \/ AbandonUpload(u)

MediaNext == Purge \/ Tick \/ \E u \in Urls : UploadStep(u)

-----------------------------------------------------------------------------
(* Properties.                                                             *)

\* The service never expects a link to live longer than it does, whatever was
\* uploaded again, given up or purged: what a plan is told about its links errs on
\* the safe side (record, media.py:34-49, and purge_expired, 66-71).
NoOverclaim == \A u \in Urls : record[u] <= link[u]
=============================================================================
