CONSTANTS
  Fingers = {f1, f2}
  Modulus = 16
  Lossy = FALSE
  MaxTouches = 3
SPECIFICATION TouchSpec
PROPERTIES CountedBeforeLifted
