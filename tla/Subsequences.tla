---------------------------- MODULE Subsequences ----------------------------
(***************************************************************************)
(* The elements of a sequence at some of its places, in their order: what  *)
(* a filter of the client, a sorted list or a page of the server is made   *)
(* of.  The places are a set, and the elements come one after the other    *)
(* from a recursive function, so that proofs can expand it (they cannot    *)
(* expand SelectSeq).                                                      *)
(***************************************************************************)
EXTENDS Naturals, Sequences

Chosen(list, places) ==
  LET upTo[k \in 0 .. Len(list)] ==
        IF k = 0 THEN <<>>
        ELSE IF k \in places THEN Append(upTo[k - 1], list[k]) ELSE upTo[k - 1]
  IN  upTo[Len(list)]
=============================================================================
