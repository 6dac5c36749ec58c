--------------------------- MODULE MCScanSession ----------------------------
(***************************************************************************)
(* ScanSession for TLC: the sets of the configurations.                    *)
(***************************************************************************)
EXTENDS ScanSession, TLC

\* Colour modes are only compared: any permutation of them is the same run.
ModeSymmetry == Permutations(Modes)

\* What bytes out of step look like: a response that announces a page, a message
\* that no call waits for, and a piece of an image that is larger than the buffer.
MCMisread ==
    LET Like(t, n) ==
          {[type |-> t, image |-> [page |-> 0, mode |-> m, size |-> CHOOSE z \in Sizes : TRUE],
            from |-> 0, size |-> n, adf |-> FALSE, more |-> FALSE, status |-> "SUCCESS"] :
             m \in Modes}
    IN  Like("SCAN", 0) \cup Like("JUNK", 0) \cup Like("SCANDATA", MaxChunk + 1)
=============================================================================
