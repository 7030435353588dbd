SPECIFICATION Spec
CONSTANTS
  solist = solist
  linkerSoinfo = linkerSoinfo
  dlopenO = dlopenO
  namespaceO = namespaceO
  dlopen = dlopen
  namespace = namespace
  Solist <- solist
  LinkerSoinfo <- linkerSoinfo
  Symbol <- MCSymbol
  Exported <- MCExported
  Category <- MCCategory
  CategoryOf <- MCCategoryOf
INVARIANT CompleteForFirst AbortsOnlyInPart
PROPERTY NoStickyFailure ZeroMeansReady
