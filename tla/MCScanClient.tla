---------------------------- MODULE MCScanClient ----------------------------
(***************************************************************************)
(* ScanClient for TLC: the sets of its configuration.                      *)
(***************************************************************************)
EXTENDS ScanClient

\* What bytes out of step look like: a page announced, a message that no call
\* waits for, the last piece of a page of an ADF job that has another one, and a
\* piece that is not the last.
MCMisread ==
    LET z == CHOOSE z \in Sizes : \A y \in Sizes : y <= z
        Like(t, n, more) ==
          {[type |-> t, image |-> [page |-> 0, mode |-> m, size |-> z], from |-> 0,
            size |-> n, adf |-> TRUE, more |-> more, status |-> "SUCCESS"] : m \in Modes}
    IN  Like("SCAN", 0, FALSE) \cup Like("SCANCONTINUE", 0, FALSE) \cup Like("JUNK", 0, FALSE)
        \cup Like("SCANDATA", z, TRUE) \cup Like("SCANDATA", 1, FALSE)
=============================================================================
