SPECIFICATION FairLiveSpec
CONSTANTS
  de = de
  Viewers = {v1}
  Locales = {de}
  LocaleOf <- OneLocale
  Calls = {c1, c2, c3}
  Writers = {w1, w2}
  Buffer = 2
  MaxWrites = 2
  MaxTimetables = 1
INVARIANTS
  LiveTypeOK
  StaleOnlyOvertaken
  
PROPERTIES
  CacheSettles
  FetchesEnd
