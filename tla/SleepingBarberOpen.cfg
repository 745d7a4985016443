CONSTANTS
    GeneratorCount = 2
    BarberCount = 1
    Chairs = 2
    MaxCustomers = 5
    MaxFaults = 0
    Customer = Customer
    Blank = Blank
    Torn = Torn
SPECIFICATION Spec
INVARIANT CustomerAccount
CONSTRAINT Undisturbed
CHECK_DEADLOCK FALSE
