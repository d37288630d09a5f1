------------------------------ MODULE LockModes ------------------------------
(***************************************************************************)
(* The lock modes of the lock manager and the relations between them       *)
(* (lock_manager_defs.h, and the conflict table of lock_manager.cpp).      *)
(* A mode mask of the code is a set of modes here.                         *)
(***************************************************************************)

LockMode == {"NONE", "IS", "IX", "S", "X"}

\* The modes a request may ask for: MODE_NONE can never be acquired.
RequestMode == LockMode \ {"NONE"}

\* LockConflictsTable[m]: the existing modes that a new request in mode m
\* conflicts with.
LockConflictsTable ==
    [m \in LockMode |->
        CASE m = "NONE" -> {}
          [] m = "IS"   -> {"X"}
          [] m = "IX"   -> {"S", "X"}
          [] m = "S"    -> {"IX", "X"}
          [] m = "X"    -> {"IS", "IX", "S", "X"}]

intentModes == {"IS", "IX"}

conflicts(newMode, existingModes) ==
    LockConflictsTable[newMode] \cap existingModes # {}

\* Mode is covered by coveringMode when its conflicts are a subset.
isModeCovered(mode, coveringMode) ==
    LockConflictsTable[mode] \subseteq LockConflictsTable[coveringMode]

=============================================================================
