SPECIFICATION Spec
CONSTANTS Families <- AllFamilies
          StartsWithAddress <- AddressFirst
INVARIANT DecodesAnyCase
CHECK_DEADLOCK FALSE
