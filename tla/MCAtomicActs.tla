---------------------------- MODULE MCAtomicActs ----------------------------
(* Small instances of AtomicActs for TLC. *)
EXTENDS AtomicActs, TLC

CONSTANTS A, B, V, L, ann, bob

\* The function A and the visit belong to ann, the function B to bob.
Callers == [j \in Codes \cup Visits |-> IF j = B THEN bob ELSE ann]

Act(profiles, records, receipts, entries) ==
    (ProfileState :> profiles) @@ (RecordsState :> records)
        @@ (ReceiptsState :> receipts) @@ (BjeState :> entries)

\* Acts of every stage: one changes both profiles, the other leaves an entry
\* in the journal of a player who need not be locked.
Rich == {Act({ann, bob}, {bob}, {}, {ann}), Act({}, {bob}, {bob}, {ann})}
Lean == {Act({ann, bob}, {ann}, {}, {})}
=============================================================================
