\* Three requests with every fault.
CONSTANTS
  Requests = {r1, r2, r3}
  None = None
  Own = Own
  Faults = {"crash", "db", "mail"}
SPECIFICATION Spec
CHECK_DEADLOCK FALSE
INVARIANTS TypeOK LockExplained MailsExplained AccountsExplained CredentialsWork
PROPERTIES WelcomedStays WelcomeArrives
