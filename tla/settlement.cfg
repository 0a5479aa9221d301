SPECIFICATION Spec
CONSTANTS
  pkg = pkg  bundle = bundle  paper = paper
  tafsir = tafsir  seerah = seerah
  ann = ann  bob = bob
  NoUser = NoUser  NoPayment = NoPayment
  Users = {ann, bob}
  Items = {tafsir, seerah}
  Buyer <- MCBuyer
  Goods <- MCGoods
  CodeOwner <- MCCodeOwner
  Handlers = {h1, h2}
  Payments = {pkg, bundle}
  Purchases = {pkg}
  Orders = {bundle}
  HardCopies = {}
  Tenanted = {pkg}
SYMMETRY Symmetry
INVARIANTS
  AccessOnlyAfterConfirmation
  PaidOrderIsComplete
  PayoutOnlyForReleasedSale
  WithheldOnlyIfBroken
  OneCommissionPerSale
  NoDoubleBonus
  RecordedWholeUnlessCut
PROPERTY KeepsPromise
