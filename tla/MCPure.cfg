SPECIFICATION Spec
CONSTANTS
  Word = 256
  Names = {"nobody", "us", "them", "long"}
  IdLen <- MCIdLen
  Lens <- MCLens
  TextLens <- MCTextLens
  Fields <- MCFields
  Lasts <- MCLasts
  Pages <- MCPages
INVARIANTS
  RoundTrip
  OpenedSound
  FirstImage
CHECK_DEADLOCK FALSE
