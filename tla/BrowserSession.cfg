SPECIFICATION FairBrowserSpec
CONSTANTS
  Requests = {t1, t2}
  Browsers = {b1}
  Home <- OneBrowser
  Passwords = {p1}
  MaxSessions = 3
  None = None
INVARIANTS BrowserTypeOK KeepsNoRetiredToken
PROPERTIES NavigationEnds
VIEW View
CHECK_DEADLOCK FALSE
