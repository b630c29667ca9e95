SPECIFICATION Spec
CONSTANTS
  Thread = {t1, t2}
  Tag <- Tags
  Name <- Names
  EmptyName <- NoName
  Identifier <- Identifiers
  Unsupported = "unsupported"
  IdentifierOf <- Id
  FONT_LOCALE_LIMIT = 2
  MaxRefs = 2
INVARIANT RefsStayValid
