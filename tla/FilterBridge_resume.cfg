\* The same filters; the answers that resume iteration are looked at.
SPECIFICATION Spec
CONSTANTS
  Platforms = {"ios", "jvm"}
  MaxData = 1
  Texts = {"ascii", "utf8"}
INVARIANT ResumeIsHonoured
CHECK_DEADLOCK FALSE
