------------------------------- MODULE Bloom --------------------------------
(***************************************************************************)
(* The log Bloom filter of core/types/bloom9.go.                           *)
(*                                                                         *)
(* A Bloom is a fixed array of BloomByteLength bytes, read as a big-endian *)
(* big.Int.  bloom9 hashes its input with Keccak256 and sets three bits,   *)
(* each taken from two bytes of the hash masked to BloomBitLength - 1.     *)
(* Add ORs them into the filter through big.Int and SetBytes, CreateBloom  *)
(* ORs the blooms of all logs of all receipts, BloomLookup tests that all  *)
(* three bits are set, and Count counts the ones byte by byte.             *)
(*                                                                         *)
(* Keccak256 is a constant function Hash from the items to byte strings;   *)
(* the byte length is a constant so that the filter fits TLC.  The         *)
(* conversions between byte arrays and big.Int are modelled by what they   *)
(* do: big-endian value, and minimal big-endian bytes without leading      *)
(* zeros.                                                                  *)
(***************************************************************************)
EXTENDS Integers, Sequences, FiniteSets, Bitwise

CONSTANTS
  BloomByteLength,  \* bytes of a Bloom (4096 in the code)
  Data,             \* the byte strings hashed (addresses and topics)
  Hash,             \* crypto.Keccak256, on Data
  ReceiptLists      \* the receipt lists CreateBloom is applied to

Bytes == 0..255

\* BloomBitLength = 8 * BloomByteLength
BloomBitLength == 8 * BloomByteLength

\* a receipt is its sequence of logs; a log has an address and topics
Logs == [address : Data, topics : Seq(Data)]

ASSUME BloomAssumption ==
  /\ BloomByteLength \in Nat \ {0}
  /\ \E k \in 0..16 : BloomBitLength = 2^k
  /\ Hash \in [Data -> Seq(Bytes)]
  /\ \A d \in Data : Len(Hash[d]) >= 6
  /\ \A rl \in ReceiptLists : \A i \in DOMAIN rl : \A j \in DOMAIN rl[i] :
       rl[i][j] \in Logs

VARIABLES
  bloom,     \* the Bloom array, bloom[1] the most significant byte
  added,     \* the items added to it (history)
  panicked   \* SetBytes panicked: the big.Int did not fit the array

vars == <<bloom, added, panicked>>

-----------------------------------------------------------------------------
(* Conversions (math/big)                                                  *)

\* new(big.Int).SetBytes(s): the big-endian value of s
RECURSIVE BytesToInt(_)
BytesToInt(s) ==
  IF s = <<>> THEN 0
  ELSE BytesToInt(SubSeq(s, 1, Len(s) - 1)) * 256 + s[Len(s)]

\* bin.Bytes(): the minimal big-endian bytes of n, empty for 0
RECURSIVE IntToBytes(_)
IntToBytes(n) ==
  IF n = 0 THEN <<>> ELSE Append(IntToBytes(n \div 256), n % 256)

\* the zero Bloom
EmptyBloom == [i \in 1..BloomByteLength |-> 0]

\* SetBytes: panics when d is longer than the array, else copies d to the
\* last Len(d) bytes and leaves the leading bytes as they were
TooBig(d) == Len(d) > BloomByteLength

\* mutant: d copied to the first bytes instead of the last
SetBytesHead(b, d) ==
  [i \in 1..BloomByteLength |-> IF i <= Len(d) THEN d[i] ELSE b[i]]

SetBytes(b, d) ==
  LET off == BloomByteLength - Len(d)
  IN  [i \in 1..BloomByteLength |-> IF i > off THEN d[i - off] ELSE b[i]]

\* Big(): the filter as a big.Int
Big(b) == BytesToInt(b)

-----------------------------------------------------------------------------
(* bloom9, Add, Count, LogsBloom, CreateBloom, BloomLookup                 *)

\* mutant: the mask one bit too wide, 2 * BloomBitLength - 1
BitIndexWide(h, i) == (h[i + 2] + h[i + 1] * 256) & (2 * BloomBitLength - 1)

\* the bit bloom9 takes from hash bytes i and i+1 (0-based i = 0, 2, 4):
\* (uint(b[i+1]) + uint(b[i]) << 8) & (BloomBitLength - 1)
BitIndex(h, i) == (h[i + 2] + h[i + 1] * 256) & (BloomBitLength - 1)

\* bloom9(d): the three bits OR'ed into a big.Int
Bloom9(d) ==
  LET h == Hash[d]
  IN  (2^BitIndex(h, 0) | 2^BitIndex(h, 2)) | 2^BitIndex(h, 4)

\* Add: the filter's big.Int OR bloom9(d), written back with SetBytes
AddBytes(b, d) == IntToBytes(Big(b) | Bloom9(d))

Add(d) ==
  /\ ~panicked
  /\ IF TooBig(AddBytes(bloom, d))
       THEN panicked' = TRUE /\ UNCHANGED <<bloom, added>>
       ELSE /\ bloom' = SetBytes(bloom, AddBytes(bloom, d))
            /\ added' = added \cup {d}
            /\ UNCHANGED panicked

\* mutant: the loop shifts the byte right instead of clearing a bit
RECURSIVE OnesOfShift(_)
OnesOfShift(x) == IF x = 0 THEN 0 ELSE 1 + OnesOfShift(shiftR(x, 1))

\* Count: per byte, `oneByte &= oneByte - 1` until zero, counting rounds
RECURSIVE OnesOf(_)
OnesOf(x) == IF x = 0 THEN 0 ELSE 1 + OnesOf(x & (x - 1))

RECURSIVE SumOnes(_)
SumOnes(s) == IF s = <<>> THEN 0 ELSE OnesOf(Head(s)) + SumOnes(Tail(s))

Count(b) == SumOnes([i \in 1..BloomByteLength |-> b[i]])

\* LogsBloom: the OR of bloom9 of every log's address and topics
RECURSIVE OrAll(_)
OrAll(s) == IF s = <<>> THEN 0 ELSE Bloom9(Head(s)) | OrAll(Tail(s))

RECURSIVE LogsBloom(_)
LogsBloom(logs) ==
  IF logs = <<>> THEN 0
  ELSE (Bloom9(Head(logs).address) | OrAll(Head(logs).topics))
         | LogsBloom(Tail(logs))

\* CreateBloom: the OR over receipts, through bin.Bytes() and BytesToBloom
RECURSIVE ReceiptsBloom(_)
ReceiptsBloom(rl) ==
  IF rl = <<>> THEN 0 ELSE LogsBloom(Head(rl)) | ReceiptsBloom(Tail(rl))

\* the items a receipt list hashes
ItemsOf(rl) ==
  UNION {{rl[i][j].address : j \in DOMAIN rl[i]}
           \cup UNION {{rl[i][j].topics[k] : k \in DOMAIN rl[i][j].topics}
                         : j \in DOMAIN rl[i]}
         : i \in DOMAIN rl}

\* a block's bloom replaces the filter: CreateBloom(receipts)
Create(rl) ==
  LET d == IntToBytes(ReceiptsBloom(rl))
  IN  /\ ~panicked
      /\ IF TooBig(d)
           THEN panicked' = TRUE /\ UNCHANGED <<bloom, added>>
           ELSE /\ bloom' = SetBytes(EmptyBloom, d)
                /\ added' = ItemsOf(rl)
                /\ UNCHANGED panicked

\* mutant: a hit on any one of the three bits
BloomLookupAny(b, d) == (Big(b) & Bloom9(d)) # 0

\* BloomLookup(bin, topic): bloom AND bloom9(topic) == bloom9(topic)
BloomLookup(b, d) == (Big(b) & Bloom9(d)) = Bloom9(d)

Init ==
  /\ bloom = EmptyBloom
  /\ added = {}
  /\ panicked = FALSE

Next ==
  \/ \E d \in Data : Add(d)
  \/ \E rl \in ReceiptLists : Create(rl)

Spec == Init /\ [][Next]_vars

-----------------------------------------------------------------------------
(* Reference definitions and properties                                    *)

\* reference: the positions of item d, by arithmetic on the hash
Positions(d) ==
  {(Hash[d][i + 1] * 256 + Hash[d][i + 2]) % BloomBitLength : i \in {0, 2, 4}}

\* reference: the bits set in b, bit 0 the lowest bit of the last byte
SetBits(b) ==
  {i \in 0..BloomBitLength - 1 :
     (b[BloomByteLength - i \div 8] \div 2^(i % 8)) % 2 = 1}

\* The filter holds exactly the bits of the items added since it was made:
\* the big.Int round trip of Add and CreateBloom (Bytes() drops leading
\* zero bytes, SetBytes copies to the tail) loses and invents no bit.
BloomExact == SetBits(bloom) = UNION {Positions(d) : d \in added}

\* Count (the `oneByte &= oneByte - 1` loop) returns the number of ones.
CountExact == Count(bloom) = Cardinality(SetBits(bloom))

\* BloomLookup answers whether all three positions of an item are set: no
\* false negative for an added item, and a positive only on a full match.
LookupExact ==
  \A d \in Data : BloomLookup(bloom, d) <=> Positions(d) \subseteq SetBits(bloom)

\* bloom9 masks every bit below BloomBitLength, so the big.Int never
\* outgrows the array and SetBytes never panics in Add or CreateBloom.
NoPanic == ~panicked

=============================================================================
