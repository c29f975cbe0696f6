CONSTANTS
  RomBanks = 1
  RamBanks = 1
  VramBanks = 2
  BankSize = 8
  WindowCount = 2
  RegPage = {9, 10, 11, 12, 13, 14}
  GfxCtrl = 9
  GfxAddrL = 10
  GfxAddrH = 11
  GfxData = 12
  BankSel0 = 13
  StoreOffsets = {0, 7}
  StoreBytes = {3}
  MaxStores = 1
SPECIFICATION Spec
INVARIANTS FetchSeesMemory LoadsSeePool
PROPERTIES ImplementsPool
CHECK_DEADLOCK FALSE
