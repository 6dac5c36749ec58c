CONSTANTS
    Other = "other"
    Offers <- MCOffers
    Models <- MCModels
SPECIFICATION OptionsSpec
INVARIANT LinesPredicted
