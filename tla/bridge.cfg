SPECIFICATION ApartSpec
CONSTANTS
  Skins = {s1, s2}
  NoSkin = NoSkin
  None = None
  Calls = {g1, g2}
  Users = {u1, u2}
  Admins = {u1}
  OldServers = {m1, m2}
  Icons = {i1, i2, None}
  MaxChanges = 1
  MaxFaults = 1
  MaxStarts = 2
  MaxConnects = 2
INVARIANTS
  TypeOK
  TagNamesAvatar
  AskedHourly
  LegacySwept
  SpaceHasIcon
  SameFromBothSources
  ChatStaysChat
  PluginIsComplete
PROPERTIES
  AvatarFollows
CHECK_DEADLOCK FALSE
