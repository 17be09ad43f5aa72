SPECIFICATION Spec
CONSTANTS
  NULL = NULL
  Main = Main
  datum = datum  left = left  right = right  whole = whole
  page = page  other = other  part = part  path1 = path1  path2 = path2
  Docs <- FileDocs
  Kind <- FileKind
  Ingr <- FileIngr
  Path0 <- FilePath0
  Paths = {path1, path2}
  Threads = {t1}
  Preset = {page}
  CanThrow = {}
  MaxOps = 1
  MaxVersion = 2
  MaxClock = 3
PROPERTIES
  FilesRefreshed
