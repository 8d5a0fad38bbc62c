---------------------------- MODULE HmdbInserts ----------------------------
(***************************************************************************)
(* Hmdb, with nothing but fetches and inserting stores, implements         *)
(* HmdbChains.  The chain of the abstract index is what a walk through the *)
(* pointers of the file meets; records that are written and not yet linked *)
(* are not on it, so every step but WriteHead is a stutter.                *)
(***************************************************************************)
EXTENDS MCHmdb, Sequences

\* The keys that a walk from the record at offset a meets.  In an index that
\* only grows a record points to an older one, so the walk ends.
KeysFrom[a \in DOMAIN idx \cup {0}] ==
  IF a = 0 THEN <<>> ELSE <<idx[a].key>> \o KeysFrom[idx[a].next]

Index == INSTANCE HmdbChains
           WITH Chains <- {LinkHeadOff(k) : k \in Keys},
                Home <- [k \in Keys |-> LinkHeadOff(k)],
                chain <- [c \in {LinkHeadOff(k) : k \in Keys} |-> KeysFrom[ptr[c]]]

\* The detailed index implements the abstract one (HMDB_Store of hmdb.c with
\* HMDB_INSERT, processes dying at any moment), and what WriteHead adds is the
\* key its caller asked for.
ImplementsChains ==
  /\ Index!Spec
  /\ [][\A p \in Procs : WriteHead(p) => Index!Insert(op[p].key)]_vars

=============================================================================
