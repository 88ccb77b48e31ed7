--------------------------- MODULE CharacterLedger ---------------------------
(***************************************************************************)
(* What the servers promise about a character: it is in the world at most  *)
(* once, it enters the world as it last was there, and what is on disk     *)
(* only moves forward.                                                     *)
(***************************************************************************)
EXTENDS Naturals

CONSTANT Absent   \* the character is in no world

VARIABLES world,   \* the version a player has, or Absent
          latest,  \* the version the character last had in the world
          onDisk   \* the version in SQL

ledger == <<world, latest, onDisk>>

Init == world = Absent /\ latest = 0 /\ onDisk = 0

Enter  == world = Absent /\ onDisk = latest /\ world' = latest /\ UNCHANGED <<latest, onDisk>>
Change == world # Absent /\ latest' = latest + 1 /\ world' = latest' /\ UNCHANGED onDisk
Leave  == world # Absent /\ world' = Absent /\ UNCHANGED <<latest, onDisk>>
Save   == onDisk' \in onDisk .. latest /\ UNCHANGED <<world, latest>>

Next == Enter \/ Change \/ Leave \/ Save
Spec == Init /\ [][Next]_ledger
=============================================================================
