--------------------------- MODULE CertificateList ---------------------------
(***************************************************************************)
(* What the scheduler may rely on in the lists it is handed by             *)
(* Scheduler.ReloadConfig: an id that has left the list never comes back.  *)
(* The cleanup of a pass compares the ids of today with a directory        *)
(* listing of before, which is safe only under this contract.              *)
(*                                                                         *)
(* ControlPlane, the API, implements it, over failed saves and restarts as *)
(* well; ReloadConfig of Renewal, the scheduler, is written against it.    *)
(***************************************************************************)

CONSTANT Ids

VARIABLES
  listed, \* the ids on the list
  spent   \* ids that are on the list, or may never be on it again

Init == listed \subseteq Ids /\ spent = listed

(* Any number of ids come and go at once: a change that could not be saved *)
(* is handed over together with the next one.                              *)
Change ==
  /\ listed' \subseteq Ids
  /\ (listed' \ listed) \cap spent = {}
  /\ spent \cup listed' \subseteq spent'
  /\ spent' \subseteq Ids

Spec == Init /\ [][Change]_<<listed, spent>>
=============================================================================
