\* Every screen, on the bounds the module gives it; of the assets, two models of
\* one product, the first with named objects.
SPECIFICATION Spec
CONSTANTS
  None = None
  Scenes = {"costing", "settings", "lists", "tabs", "groups", "panels", "table", "drawer",
            "board", "encode", "orders", "parts", "model", "pose", "anchors", "editor", "couples", "sites", "requests", "assets", "receipts",
            "inbox", "lookup"}
  Versions = {"v1", "v2"}
  Named = {"v1"}
  Boards = {"x", "y"}
  Cards = {"c1"}
  Tagged = {"c1"}
  Chips = {"u", "v"}
  HubBuffer = 1
  DropTargets = {"NEED_PRINT", "PACKING"}
  MaxMoves = 2
  MaxBlips = 1
  MaxPolls = 1
  Null = Null
  Nil = None
  HostOf <- Host
  Groups = {"friends", "other", "work"}
  FirstGuests <- Guests
  PageSize = 1
  MaxTasks = 3
  FirstAlbum <- OldPhotos
  MaxEdits = 2
  MaxUploads = 2
  MaxSaves = 1
  Keys = {"subdomain", "map", "couple", "hero", "gallery"}
  Pages = {"x", "y"}
  Names = {"an", "binh"}
  FirstCouples <- TwoCouples
  FirstEvents <- TwoEvents
  Passwords <- FirstPasswords
  Labels = {"TIEC", "HOA", "!!"}
  Make <- Slug
  MaxCalls = 2
  MaxAsks = 2
  max_deliver = 2
  Prefetch = 2
  MaxJobs = 2
  MaxLooks = 2
  MaxFaults = 1
INVARIANTS DesksTypeOK StaffSound PrintDeskSound WeddingDeskSound AssetsSound
\* The budgets of calls and dialogs run out.
CHECK_DEADLOCK FALSE
