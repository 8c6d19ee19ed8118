SPECIFICATION ApartSpec
CONSTANTS
  Skins = {s1}
  NoSkin = NoSkin
  None = None
  Calls = {g1}
  Users = {u1}
  Admins = {u1}
  OldServers = {}
  Icons = {None}
  MaxChanges = 0
  MaxFaults = 0
  MaxStarts = 1
  MaxConnects = 1
INVARIANTS
  LogShowsDeaths
CHECK_DEADLOCK FALSE
