--------------------------- MODULE LockRequestList ---------------------------
(***************************************************************************)
(* The lists of lock requests of a LockHead (lock_request_list.h), as      *)
(* sequences from front to back.                                           *)
(***************************************************************************)
EXTENDS Integers, Sequences

\* The requests on a list.
Members(list) == {list[i] : i \in DOMAIN list}

\* No request is twice on a list: push_front and push_back require that the
\* links of the request are not in use.
Distinct(list) == \A i, j \in DOMAIN list : list[i] = list[j] => i = j

push_front(list, request) == <<request>> \o list

push_back(list, request) == Append(list, request)

\* Mutant of remove: the first element stays reachable from _front.
removeKeepsFront(list, i) ==
    IF i = 1 THEN list ELSE SubSeq(list, 1, i - 1) \o SubSeq(list, i + 1, Len(list))

\* Unlink the i-th request; the ones after it move up.
remove(list, i) ==
    [j \in 1..(Len(list) - 1) |-> IF j < i THEN list[j] ELSE list[j + 1]]

=============================================================================
