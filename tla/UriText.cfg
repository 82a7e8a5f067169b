SPECIFICATION Spec
CONSTANTS Families <- AllFamilies
          StartsWithAddress <- AddressFirst
INVARIANTS RulesConform UriConforms WideAgrees PartsFaithful ConnectTargets EncodedFits EncodesFaithfully DecodesPairs ViewIsExact
CHECK_DEADLOCK FALSE
