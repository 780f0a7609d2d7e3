----------------------------- MODULE FileStore -----------------------------
(***************************************************************************)
(* What Mist Drive promises about the files of a user, without handlers,   *)
(* goroutines, workers or failures: each key holds one object or none, an  *)
(* upload is stored at most once, a rename moves a file in one step, and   *)
(* recompression changes neither the key nor the content of a file.        *)
(* Drive implements it; there, Spec holds of the files a user can find.    *)
(***************************************************************************)
EXTENDS Naturals

CONSTANTS Keys, UploadIds, None

VARIABLES files,  \* the object of each key
          spent   \* the uploads that can no longer be stored

vars == <<files, spent>>

NoObject == [size |-> 0, content |-> None, packed |-> FALSE]

Init == files = [k \in Keys |-> NoObject] /\ spent = {}

\* A finished upload appears under its key, in place of what was there.
Put(k, u) ==
  /\ u \notin spent
  /\ spent' = spent \cup {u}
  /\ files'[k].size \in Nat
  /\ files' = [files EXCEPT ![k] = [size    |-> files'[k].size,
                                   content |-> u,
                                   packed  |-> FALSE]]

\* An upload is given up.
Discard(u) == spent' = spent \cup {u} /\ UNCHANGED files

Remove(k) == files' = [files EXCEPT ![k] = NoObject] /\ UNCHANGED spent

Move(k, to) ==
  /\ files[to] = NoObject
  /\ files' = [files EXCEPT ![k] = NoObject, ![to] = files[k]]
  /\ UNCHANGED spent

Pack(k) ==
  /\ files[k] # NoObject
  /\ files'[k].size \in 0..files[k].size
  /\ files' = [files EXCEPT ![k].size = files'[k].size, ![k].packed = TRUE]
  /\ UNCHANGED spent

Next ==
  \/ \E k \in Keys, u \in UploadIds : Put(k, u)
  \/ \E u \in UploadIds : Discard(u)
  \/ \E k \in Keys : Remove(k) \/ Pack(k)
  \/ \E k, to \in Keys : Move(k, to)

Spec == Init /\ [][Next]_vars

=============================================================================
