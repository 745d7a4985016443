CONSTANTS
    GeneratorCount = 1
    BarberCount = 1
    Chairs = 2
    MaxCustomers = 3
    MaxFaults = 0
    Customer = Customer
    Blank = Blank
    Torn = Torn
SPECIFICATION Spec
INVARIANT LastCustomersServed
CONSTRAINT Undisturbed
CHECK_DEADLOCK FALSE
