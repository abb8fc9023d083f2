\* The order tracker while its own server is out of reach.
SPECIFICATION Spec
CONSTANTS
  Catalogue <- Versions
  Texts <- Engravings
  StepperMax = 2
  Missing = None
  None = None
  Null = Null
  Nil = Nil
  Unset = Unset
  Tabs = {"t1", "t2"}
  Keys = {"plain", "named"}
  MAX_QUANTITY = 2
  MAX_LINES = 2
  OldCarts <- Leftover
  MaxWrites = 2
  Engraved = {"named"}
  Provinces = {"hanoi", "island"}
  Wards = {"w1", "w2"}
  WardsOf <- WardsIn
  Shippable = {"hanoi"}
  MaxUploads = 1
  CheckoutTabs = {"t1"}
  MaxSubmits = 2
  Phones = {"mai", "lan", "finder"}
  SignedIn <- Customer
  Photos = {"a"}
  MaxPhotos = 1
  MaxCalls = 2
  MaxScans = 2
  Requests = {"r", "s"}
  Tokens = {"t", "u"}
  Guests = {"mai"}
  MaxDevices = 3
  MaxVisits = 3
  MaxAnswers = 2
  MaxDesk = 2
  Codes = {"c1", "c2"}
  Moving = {"c1"}
  MaxRestarts = 2
  Supported = TRUE
  MaxTasks = 3
  Invitees = {"mai", "lan"}
  Names = {"A"}
  Choices = {"yes"}
  Loads <- Visits
  MaxSaves = 2
  Lines = {"x", "y"}
  MaxOpens = 2
  MaxEdits = 1
  MaxAlbum = 16
  NoOne = NoOne
  Scenes = {"tracking"}
INVARIANT FailuresKeepPolling
CHECK_DEADLOCK FALSE
