\* Add and CreateBloom on a 16-bit filter, checked against the reference
\* positions of each item.
CONSTANTS
  a1 = a1
  a2 = a2
  a3 = a3
  a4 = a4
  a5 = a5
  a6 = a6
  a7 = a7
  BloomByteLength = 2
  Data <- MCData
  Hash <- MCHash
  ReceiptLists <- MCReceiptLists
SPECIFICATION Spec
INVARIANT BloomExact
INVARIANT CountExact
INVARIANT LookupExact
INVARIANT NoPanic
