SPECIFICATION Spec
CONSTANTS
    Orders = {o1}
    Methods = {"epay"}
    Amounts = {1}
    Prices = {6934}
    Units = {1}
    Shortfalls = {0}
    Discounts = {0}
    Taxes = {0}
    GraceChecks = 2
    MaxQuotes = 1
    MaxFaults = 0
PROPERTIES PaymentsArrive
