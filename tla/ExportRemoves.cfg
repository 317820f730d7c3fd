\* One command, and a file of somebody else at its output path.
CONSTANTS
  Exporters = {a}
  MaxVersion = 1
SPECIFICATION StoreSpec
PROPERTY OthersFileKept
