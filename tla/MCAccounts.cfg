SPECIFICATION FairSpec
CONSTANTS
    tab1 = tab1
    tab2 = tab2
    bert = bert
    anna_email = anna_email
    right = right
    wrong = wrong
    demo_email = demo_email
    demo_password = demo_password
    s1 = s1
    Clients = {tab1, tab2, bert}
    Email <- MCEmail
    Password <- MCPassword
    DemoEmail = demo_email
    DemoPassword = demo_password
    Symbols = {s1}
    MaxItem = 2
    MaxRestarts = 1
INVARIANTS TokenNeedsPassword KeysAreUnique AnswerIsTheRowAdded
PROPERTIES OnlyOwnerDeletes EveryoneSignsIn
CHECK_DEADLOCK FALSE
