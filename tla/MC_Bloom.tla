------------------------------ MODULE MC_Bloom ------------------------------
(***************************************************************************)
(* A 2-byte (16-bit) filter and seven items.  The hashes put bits in both  *)
(* bytes (so Bytes() drops a leading zero byte while only the low byte is  *)
(* set), carry high bits that the mask must cut (17, 254, 40), repeat a    *)
(* position within one item (a4), and let a7's positions be covered by a1  *)
(* and a2 together (a false positive of BloomLookup).                      *)
(***************************************************************************)
EXTENDS Bloom, TLC

CONSTANTS a1, a2, a3, a4, a5, a6, a7

MCData == {a1, a2, a3, a4, a5, a6, a7}

MCHash ==
  (a1 :> <<0, 3, 1, 17, 255, 254>>) @@ (a2 :> <<0, 9, 0, 3, 2, 40>>)
  @@ (a3 :> <<7, 7, 0, 0, 0, 12>>) @@ (a4 :> <<1, 16, 0, 16, 0, 3>>)
  @@ (a5 :> <<0, 1, 0, 2, 0, 4>>) @@ (a6 :> <<0, 5, 0, 6, 0, 7>>)
  @@ (a7 :> <<0, 3, 0, 9, 0, 1>>)

MCReceiptLists ==
  { << >>,
    << <<[address |-> a1, topics |-> <<a2, a3>>]>>, << >> >>,
    << <<[address |-> a5, topics |-> << >>]>>,
       <<[address |-> a6, topics |-> <<a6>>]>> >> }

=============================================================================
