SPECIFICATION Spec
CONSTANTS
    Orders = {o1}
    Methods = {"stripe", "epay"}
    Amounts = {1}
    Prices = {10, 20}
    Units = {1}
    Shortfalls = {0, 20}
    Discounts = {0, 10}
    Taxes = {1}
    GraceChecks = 1
    MaxQuotes = 2
    MaxFaults = 1
INVARIANTS CreditIsPaid StripeCostsWhatWasShown DialogShowsItsQuote
PROPERTIES PurchaseSpec PaymentsArrive WatchEnds
