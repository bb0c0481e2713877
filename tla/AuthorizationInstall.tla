------------------------ MODULE AuthorizationInstall ------------------------
(***************************************************************************)
(* authorization.py: install_authorization_candidate, which replaces the   *)
(* authorization file, and AuthorizationStore, which loads it.  Several    *)
(* installers may run at once, each may fail at every stage or be killed,  *)
(* the candidate may be replaced under them, and a store may reload at any *)
(* moment.  A file is its content as a whole; of a content it matters      *)
(* whether the parser accepts it.  Candidates are replaced, not edited in  *)
(* place: whoever has a file open reads one content to its end.  Temporary *)
(* files that nobody owns any more matter to no one and are left out.      *)
(***************************************************************************)
EXTENDS Naturals, FiniteSets

CONSTANTS
  Installers,
  Contents,     \* what a candidate may hold ...
  Valid,        \* ... and which of it AuthorizationFile accepts
  Reloaders     \* threads that call reload()

ASSUME InstallAssumption == Valid \subseteq Contents

Absent == "absent"

VARIABLES
  candidate,     \* the content of the candidate file
  destination,   \* of the live authorization file
  temp,          \* of each installer's temporary file
  pc,            \* the stage each installer is in
  loaded,        \* what each reload() under way has read
  store,         \* the store: its records, and the content _version describes
  installed      \* every content that has been live

vars == <<candidate, destination, temp, pc, loaded, store, installed>>

Stages == {"idle", "cleaning", "creating", "flushed", "validated"}

Init ==
  /\ candidate \in Contents
  /\ destination \in Valid
  /\ temp = [i \in Installers |-> Absent]
  /\ pc = [i \in Installers |-> "idle"]
  /\ loaded = [r \in Reloaders |-> Absent]
  /\ store = [records |-> Absent, version |-> Absent]
  /\ installed = {destination}

-----------------------------------------------------------------------------
Goes(i, stage) == pc' = [pc EXCEPT ![i] = stage]

(* parser.load(candidate) *)
ValidateCandidate(i) ==
  /\ pc[i] = "idle"
  /\ candidate \in Valid
  /\ Goes(i, "cleaning")
  /\ UNCHANGED <<candidate, destination, temp, loaded, store, installed>>

(* The abandoned files are unlinked, those of running installers with them;  *)
(* an unlink that fails is reported and leaves its file.                     *)
CleanAbandoned(i) ==
  /\ pc[i] = "cleaning"
  /\ \E removed \in SUBSET {j \in Installers : temp[j] # Absent} :
       temp' = [j \in Installers |-> IF j \in removed THEN Absent ELSE temp[j]]
  /\ Goes(i, "creating")
  /\ UNCHANGED <<candidate, destination, loaded, store, installed>>

(* The candidate as it is now is copied into a new file, which is flushed    *)
(* and synced; nobody looks at the file before it is complete.               *)
CopyCandidate(i) ==
  /\ pc[i] = "creating"
  /\ temp' = [temp EXCEPT ![i] = candidate]
  /\ Goes(i, "flushed")
  /\ UNCHANGED <<candidate, destination, loaded, store, installed>>

(* Mutant: only the candidate is validated. *)
MutValidateTemporary(i) ==
  /\ pc[i] = "flushed"
  /\ Goes(i, "validated")
  /\ UNCHANGED <<candidate, destination, temp, loaded, store, installed>>

ValidateTemporary(i) ==
  /\ pc[i] = "flushed"
  /\ temp[i] \in Valid
  /\ Goes(i, "validated")
  /\ UNCHANGED <<candidate, destination, temp, loaded, store, installed>>

(* os.replace *)
Replace(i) ==
  /\ pc[i] = "validated"
  /\ temp[i] # Absent
  /\ destination' = temp[i]
  /\ installed' = installed \cup {temp[i]}
  /\ temp' = [temp EXCEPT ![i] = Absent]
  /\ Goes(i, "idle")
  /\ UNCHANGED <<candidate, loaded, store>>

(* A stage raised, by itself or because its file is gone or refused, or the  *)
(* installer is killed: its temporary file is unlinked or left to nobody.    *)
InstallFails(i) ==
  /\ pc[i] # "idle"
  /\ temp' = [temp EXCEPT ![i] = Absent]
  /\ Goes(i, "idle")
  /\ UNCHANGED <<candidate, destination, loaded, store, installed>>

(* The operator puts another candidate in place. *)
NewCandidate ==
  /\ candidate' \in Contents \ {candidate}
  /\ UNCHANGED <<destination, temp, pc, loaded, store, installed>>

-----------------------------------------------------------------------------
(* reload(): the parser reads the live file and accepts it; otherwise it     *)
(* raises and the store stays as it is.                                      *)
LoadDestination(r) ==
  /\ loaded[r] = Absent
  /\ destination \in Valid
  /\ loaded' = [loaded EXCEPT ![r] = destination]
  /\ UNCHANGED <<candidate, destination, temp, pc, store, installed>>

(* path.stat(), and the assignments under the lock. *)
PublishLoaded(r) ==
  /\ loaded[r] # Absent
  /\ store' = [records |-> loaded[r], version |-> destination]
  /\ loaded' = [loaded EXCEPT ![r] = Absent]
  /\ UNCHANGED <<candidate, destination, temp, pc, installed>>

(* Mutant: a reload that fails leaves the store empty. *)
MutReloadFails(r) ==
  /\ loaded[r] # Absent
  /\ loaded' = [loaded EXCEPT ![r] = Absent]
  /\ store' = [records |-> Absent, version |-> Absent]
  /\ UNCHANGED <<candidate, destination, temp, pc, installed>>

(* stat() raised. *)
ReloadFails(r) ==
  /\ loaded[r] # Absent
  /\ loaded' = [loaded EXCEPT ![r] = Absent]
  /\ UNCHANGED <<candidate, destination, temp, pc, store, installed>>

Install(i) ==
  \/ ValidateCandidate(i) \/ CleanAbandoned(i) \/ CopyCandidate(i)
  \/ ValidateTemporary(i) \/ Replace(i) \/ InstallFails(i)

Reload(r) == LoadDestination(r) \/ PublishLoaded(r) \/ ReloadFails(r)

Next ==
  \/ \E i \in Installers : Install(i)
  \/ \E r \in Reloaders : Reload(r)
  \/ NewCandidate

Spec == Init /\ [][Next]_vars

-----------------------------------------------------------------------------
TypeOK ==
  /\ candidate \in Contents
  /\ destination \in Contents
  /\ temp \in [Installers -> Contents \cup {Absent}]
  /\ pc \in [Installers -> Stages]
  /\ loaded \in [Reloaders -> Contents \cup {Absent}]
  /\ store \in [records : Contents \cup {Absent}, version : Contents \cup {Absent}]
  /\ installed \subseteq Contents

(* FR-016, AC-016: the live file is a complete file the parser accepts,      *)
(* whatever candidates come and go between validation and copy, whatever     *)
(* installers run, fail, are killed or lose their files to each other.       *)
DestinationIsValid == destination \in Valid

(* AC-016: the application never observes a partial or refused file: the     *)
(* store holds a content that was live as a whole, and once it holds one it  *)
(* is never without.                                                         *)
StoreIsWhole ==
  [][/\ store'.records \in (installed \cap Valid) \cup {Absent}
     /\ store.records # Absent => store'.records # Absent]_vars

=============================================================================
