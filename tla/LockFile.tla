------------------------------ MODULE LockFile ------------------------------
(***************************************************************************)
(* Files that replace themselves (common/lock.c), as the text tables use   *)
(* them: the accounts of the login server (account_txt.c) and the          *)
(* permanent script variables (mapreg_txt.c).  A save writes a temporary   *)
(* file, removes the backup, makes the file the backup and the temporary   *)
(* file the file; the program may be killed between any two of these.      *)
(*                                                                         *)
(* What is stored is a set of entries.  Assumed: what fclose wrote is on   *)
(* disk, a rename happens whole or not at all, and no write fails.         *)
(***************************************************************************)
EXTENDS Naturals, FiniteSets

CONSTANTS Entries, \* what the program may store
          MaxTmp,  \* the last number of a temporary file: 9999
          Missing, \* no such file
          Torn     \* a file that was not written to the end

ASSUME LockAssumption == /\ MaxTmp \in Nat \ {0}
                         /\ Missing # Torn /\ \A s \in SUBSET Entries : s # Missing /\ s # Torn

VARIABLES kind,    \* "accounts", which refuses to start without its file, or "mapreg"
          disk,    \* the file, the temporary files _0001.tmp, ... and the .bak
          content, \* the table in memory, Missing while the program does not run
          phase,   \* how far a save is
          info,    \* the number of the temporary file
          mapreg_dirty,
          saved,   \* entries of the saves that were completed, and
          struck   \* was the program killed between the two renames? for the property only

lockVars == <<kind, disk, content, phase, info, mapreg_dirty, saved, struck>>

File == 0
Backup == MaxTmp + 1
Names == 0 .. MaxTmp + 1
Whole(f) == disk[f] \notin {Missing, Torn}

LockTypeOK ==
    /\ kind \in {"accounts", "mapreg"} /\ struck \in BOOLEAN /\ saved \subseteq Entries
    /\ disk \in [Names -> (SUBSET Entries) \cup {Missing, Torn}]
    /\ content \in (SUBSET Entries) \cup {Missing} /\ info \in 1 .. MaxTmp
    /\ phase \in {"idle", "writing", "written", "unbacked", "backed"}

LockInit ==
    /\ kind \in {"accounts", "mapreg"}
    /\ disk = [f \in Names |-> IF f = File THEN {} ELSE Missing]
    /\ content = {} /\ phase = "idle" /\ info = 1 /\ mapreg_dirty = FALSE
    /\ saved = {} /\ struck = FALSE

Runs == content # Missing
Goes(from, to) == Runs /\ phase = from /\ phase' = to

(* mapreg_setreg, or a change of an account *)
Change ==
    /\ Runs /\ phase = "idle"
    /\ \E e \in Entries \ content : content' = content \cup {e}
    /\ mapreg_dirty' = TRUE
    /\ UNCHANGED <<kind, disk, phase, info, saved, struck>>

(* lock_fopen: the first number without a file.  The code overwrites the last one when all are
   taken, after as many kills; here it stops. *)
Unused == {n \in 1 .. MaxTmp : disk[n] = Missing}
FirstTmp == 1                                          \* a mistake the runs must notice
FreeTmp == CHOOSE n \in Unused : \A other \in Unused : n <= other

lock_fopen ==
    /\ Goes("idle", "writing") /\ mapreg_dirty /\ Unused # {}
    /\ info' = FreeTmp
    /\ disk' = [disk EXCEPT ![FreeTmp] = Torn]
    /\ UNCHANGED <<kind, content, mapreg_dirty, saved, struck>>

(* lock_fclose, in four steps *)
CloseTmp ==
    /\ Goes("writing", "written")
    /\ disk' = [disk EXCEPT ![info] = content]
    /\ UNCHANGED <<kind, content, info, mapreg_dirty, saved, struck>>

RemoveBackup ==
    /\ Goes("written", "unbacked")
    /\ disk' = [disk EXCEPT ![Backup] = Missing]
    /\ UNCHANGED <<kind, content, info, mapreg_dirty, saved, struck>>

RenameFile ==    \* there may be none
    /\ Goes("unbacked", "backed")
    /\ disk' = [disk EXCEPT ![Backup] = disk[File], ![File] = Missing]
    /\ UNCHANGED <<kind, content, info, mapreg_dirty, saved, struck>>

RenameTmp ==
    /\ Goes("backed", "idle")
    /\ disk' = [disk EXCEPT ![File] = disk[info], ![info] = Missing]
    /\ saved' = saved \cup content /\ mapreg_dirty' = FALSE
    /\ UNCHANGED <<kind, content, info, struck>>

Killed ==
    /\ Runs
    /\ content' = Missing /\ phase' = "idle" /\ mapreg_dirty' = FALSE
    /\ struck' = (struck \/ phase = "backed")
    /\ UNCHANGED <<kind, disk, info, saved>>

(* account_db_txt_init, script_load_mapreg *)
StartsWithout == {}
Restart ==
    /\ ~Runs
    /\ IF disk[File] # Missing THEN content' = disk[File]
       ELSE kind = "mapreg" /\ content' = StartsWithout
    /\ UNCHANGED <<kind, disk, phase, info, mapreg_dirty, saved, struck>>

LockNext == Change \/ lock_fopen \/ CloseTmp \/ RemoveBackup \/ RenameFile \/ RenameTmp \/ Killed \/ Restart
LockSpec == LockInit /\ [][LockNext]_lockVars

----------------------------------------------------------------------------
(* Whenever the program is killed, what was saved is still whole in some file, under its name, as
   the backup or as a temporary file; and the program that runs has it in memory, except for one
   that starts without its file after it was killed between the two renames. *)
SavesSurvive ==
    /\ \A e \in saved : \E f \in Names : Whole(f) /\ e \in disk[f]
    /\ Runs => saved \subseteq content \/ (kind = "mapreg" /\ struck)
=============================================================================
