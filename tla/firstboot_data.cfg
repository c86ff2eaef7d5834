\* The user's data is kept, whatever happens; an interrupted first boot is recognised.
SPECIFICATION Spec
CONSTANTS
  a = a
  b = b
  Names = {a, b}
  NoName = NoName
  MaxIds = 6
  Environments = {{}, {"disk", "rename"}, {"unlink", "kill", "state", "rename"}}
SYMMETRY NameSymmetry
INVARIANTS TypeOK FirstBootRepaired
PROPERTY UserDataKept
