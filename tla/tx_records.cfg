CONSTANTS
  t1 = t1
  t2 = t2
  t3 = t3
  low = low
  high = high
  ann = ann
  bob = bob
  a1 = a1
  a2 = a2
  b1 = b1
  shop = shop
  coffee = coffee
  Native = Native
  NoEvent = NoEvent
  NoTx = NoTx
  Txs = {t1, t2, t3}
  Blocks = {low, high}
  Observers = {o1}
  Hashes = {t1, t2, t3}
  Addresses = {a1, a2, b1, shop, coffee}
  Unit = 4
  KeyOf <- MCKeyOf
  BlockOf <- MCBlockOf
  Content <- MCContent
  Contents <- MCContents
  Data <- MCData
  DataOf <- MCDataOf
  Limit <- LimitRecords
SPECIFICATION HostSpec
INVARIANT TypeOK
INVARIANT FirstFailuresRecorded
INVARIANT BooksComplete
INVARIANT DataAgree
PROPERTY RecordsDrain
