----------------------------- MODULE MCCatalog ------------------------------
(***************************************************************************)
(* Loads of one file and of two files at once, with a file of two chunks,  *)
(* a line that does not fit, and a partition the table may lack.           *)
(***************************************************************************)
EXTENDS Catalog, TLC

Source(part, lines) == [part |-> part, lines |-> lines]

MCJobs == { <<Source(0, <<TRUE, TRUE, TRUE>>)>>,
            <<Source(0, <<TRUE, TRUE>>), Source(1, <<TRUE, FALSE>>)>>,
            <<Source(1, <<TRUE, TRUE, FALSE>>), Source(0, <<TRUE>>)>> }

\* Schemas are only compared for equality.
MCSymmetry == Permutations(Schemas)
=============================================================================
