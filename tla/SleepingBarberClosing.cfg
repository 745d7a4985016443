CONSTANTS
    GeneratorCount = 1
    BarberCount = 1
    Chairs = 2
    MaxCustomers = 2
    MaxFaults = 1
    Customer = Customer
    Blank = Blank
    Torn = Torn
SPECIFICATION FairSpec
INVARIANT IInv
PROPERTY ShopCloses
CHECK_DEADLOCK FALSE
