SPECIFICATION FairSpec
CONSTANTS
    name1 = name1
    name2 = name2
    code1 = code1
    code2 = code2
    tax1 = tax1
    Item = {i1}
    Guids = {i1}
    Name = {name1, name2}
    Tax = {tax1, tax2}
    NoTax = NoTax
    Gone = Gone
    NoItem = NoItem
    Product = {code1, code2}
    CodeFor <- CodeOfName
    HandMade <- OneByHand
    NoRow = NoRow
    Worker = w
    Console = {c1}
    MaxTurns = 2
INVARIANTS
    TypeOK
    EventsAccepted
PROPERTY
    LiteFollowsTally
