------------------------------ MODULE MCDrive ------------------------------
(***************************************************************************)
(* Small instances of Drive, one per configuration MCDrive*.cfg.  The sets *)
(* of the configuration bound every run: each upload id is used once, so   *)
(* that sizes, the queue and the histories are finite.                     *)
(***************************************************************************)
EXTENDS Drive, TLC

\* Ids of uploads and requests are interchangeable, and so are folders and
\* names as long as no name is an archive.
Symmetry == Permutations(UploadIds) \cup Permutations(Requests)
FileSymmetry == Symmetry \cup Permutations(Folders) \cup Permutations(Names)

\* Recompression looks at the ETag and then puts the result, uploadComplete
\* looks at the old size and then completes the upload: two calls each, and
\* the code does not exclude that one's write falls between the other's two.
\* In this window a run looks away.
NoUploadInWindow ==
  \A w \in Workers, r \in Requests :
    ~ /\ At(w, "packPut") /\ At(r, "completeS3")
      /\ task[w].path = task[r].path /\ bucket' # bucket

=============================================================================
