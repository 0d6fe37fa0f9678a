SPECIFICATION Spec
CONSTANTS
  u1 = u1 u2 = u2 h1 = h1 h2 = h2 l1 = l1 l2 = l2 i1 = i1 i2 = i2 a1 = a1
  User = {u1, u2} Handler = {h1, h2} List = {l1, l2} Item = {i1} Address = {a1}
  NoUser = NoUser NoList = NoList NoItem = NoItem
  MaxArchivings = 2
  Workloads = {{"createList", "updateList", "deleteList", "createItem", "role"},
               {"createList", "createItem", "archive", "unarchive", "hold"},
               {"createList", "import", "updateItem", "deleteItem", "archive", "hold"},
               {"createList", "deleteList", "createItem", "getList", "listItems"},
               {"createList", "createItem", "listItems", "export", "archive", "role"}}
SYMMETRY Symmetry
INVARIANTS TypeOK OwnersOnly GiverByRaceOnly ToldPerArchive HoldersTold
PROPERTIES ArchiveStands
CHECK_DEADLOCK FALSE
