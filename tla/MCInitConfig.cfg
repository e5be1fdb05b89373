SPECIFICATION Spec
CONSTANTS
  App = {main, worker}
  Sender = sender
  NoThread = NoThread
  Unset = Unset
  Default <- MCDefault
  Choice <- MCChoice
  HdrLen = 1
INVARIANTS
  TypeOK
  SettingsAgree
  LargestPagesFit
PROPERTY
  FilledOnce
