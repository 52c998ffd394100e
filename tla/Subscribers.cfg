SPECIFICATION FairSpec
CONSTANTS
    Editions = {"morning"}
    MaxRequests = 2
    MaxMails = 2
    ConfirmationLifetime = 1
    TokenRetention = 1
    AddressRetention = 2
    LinkLifetime = 3
    LinkRetention = 1
    MailRetention = 3
    LinkPromise = 2
INVARIANTS RowsAgree  
PROPERTIES SuppressionStands  AddressesAreForgotten
