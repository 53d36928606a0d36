--------------------------- MODULE MCInvoiceApproval ---------------------------
(***************************************************************************)
(* InvoiceApproval on small instances. "raw" is a content the recompute    *)
(* normalises into "clean", "bad" one it finds blocking issues in.         *)
(***************************************************************************)
EXTENDS InvoiceApproval, TLC

CONSTANTS raw, clean, bad

MCPayloads == {raw, clean, bad}
MCRecompute == [p \in MCPayloads |-> IF p = raw THEN clean ELSE p]

\* The contents of the runs that follow claims and not the recompute.
MCPlainPayloads == {raw, clean}
MCPlainRecompute == [p \in MCPlainPayloads |-> p]

\* The content of the runs that follow numbers and invoices only.
MCOnePayload == {clean}
MCOneRecompute == [p \in MCOnePayload |-> p]

Symmetry == Permutations(Workers) \cup Permutations(Requests) \cup Permutations(Creators)
=============================================================================
