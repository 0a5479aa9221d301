SPECIFICATION FairSpec
CONSTANTS
  pkg = pkg  bundle = bundle  paper = paper
  tafsir = tafsir  seerah = seerah
  ann = ann  bob = bob
  NoUser = NoUser  NoPayment = NoPayment
  Users = {ann}
  Items = {tafsir}
  Buyer <- MCBuyer
  Goods <- OneBook
  CodeOwner <- NobodyReferred
  Handlers = {h1, h2}
  Payments = {bundle, paper}
  Purchases = {}
  Orders = {bundle}
  HardCopies = {paper}
  Tenanted = {}
PROPERTY PaidIsReleased
