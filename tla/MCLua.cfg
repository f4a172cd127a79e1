SPECIFICATION LuaSpec
CONSTANTS
    o1 = o1  o2 = o2  o3 = o3  uv1 = uv1  uv2 = uv2  Main = Main  Nil = Nil  mainthread = mainthread  c1 = c1  c2 = c2
    Content <- Contents  HashOf <- Hashes  MINSTRTABSIZE = 1  STRCACHE_M = 2  MaxStrings = 3
INVARIANTS HeapSafe TableIsMap Interned CountersExact
PROPERTIES FinalizedNotWeak CallsAsPromised LibrariesRight CompiledRight
CHECK_DEADLOCK FALSE
