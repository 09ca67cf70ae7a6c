--------------------------- MODULE MCTxExtraction ---------------------------
(***************************************************************************)
(* Instances of HostBooks for TLC.  The host watches two addresses of ann  *)
(* and one of bob.  One block holds a token transfer of ann's to a shop,   *)
(* whose fee is told apart, and a transfer between ann's own addresses;    *)
(* another holds a transaction of strangers.                               *)
(***************************************************************************)
EXTENDS HostBooks, TLC

CONSTANTS t1, t2, t3, low, high, ann, bob, a1, a2, b1, shop, coffee

MCKeyOf   == a1 :> ann @@ a2 :> ann @@ b1 :> bob
MCBlockOf == t1 :> low @@ t2 :> low @@ t3 :> high

Tx(hash, from, to, value) ==
  [hash |-> hash, from |-> from, to |-> to, value |-> value, gasPrice |-> 3, gas |-> 9,
   status |-> 0]
ReceiptOf(status, logs) == [gasUsed |-> 5, status |-> status, logs |-> logs]
LogOf(contract, from, to, value) ==
  [transfer |-> TRUE, contract |-> contract, from |-> from, to |-> to, value |-> value]
OtherLog == [LogOf(coffee, shop, shop, 0) EXCEPT !.transfer = FALSE]

MCContent ==
  t1 :> [tx |-> Tx(t1, a1, a2, 6), receipt |-> ReceiptOf(1, <<OtherLog>>)] @@
  t2 :> [tx |-> Tx(t2, a1, coffee, 0), receipt |-> ReceiptOf(1, <<LogOf(coffee, a1, shop, 7)>>)] @@
  t3 :> [tx |-> Tx(t3, shop, coffee, 8), receipt |-> ReceiptOf(1, <<>>)]

MCDataOf == [t \in Txs |-> {Name(d) : d \in Extracted[t]}]
MCData   == UNION {DataOf[t] : t \in Txs}

Parties  == {a1, a2, b1, shop, coffee}
MCLogs   ==
  LET one == {LogOf(c, from, to, v) :
                c \in {coffee, shop}, from \in {a1, shop}, to \in Parties, v \in {0, 7}}
  IN {<<>>, <<OtherLog>>} \union {<<l>> : l \in one} \union {<<OtherLog, l>> : l \in one}
       \union {<<l, LogOf(coffee, a1, b1, 7)>> : l \in one}
MCContents ==
  {[tx |-> Tx(t1, from, to, v), receipt |-> ReceiptOf(s, logs)] :
     from \in {a1, b1, shop}, to \in Parties, v \in {0, 6, 8}, s \in {0, 1}, logs \in MCLogs}

Quiet == [k \in Kinds |-> 0]
LimitRecords == [Quiet EXCEPT !["null"] = 1, !["notify"] = 2,
                              !["error"] = 1, !["rewind"] = 1]
LimitTwice   == [Quiet EXCEPT !["notify"] = 2]
=============================================================================
