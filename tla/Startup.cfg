SPECIFICATION Spec
CONSTANTS
  Actions <- MCActions
  ClassOf <- MCClassOf
  CategoryOf <- MCCategoryOf
  Tools <- MCTools
  ActionOf <- MCActionOf
  AnyAction = "*"
  Local = "local"
  RawProfiles = {"", "readonly", "support", "admin", "root"}
  MaxAdvertisedTools = 4
INVARIANTS
  AdvertisedExactly
  BlankProfileChangesNothing
  TellsWhatItLets
