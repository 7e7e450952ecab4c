SPECIFICATION Spec
CONSTANTS
    Garbage = Garbage
    Nobody = Nobody
    Sample <- MCSample
    Needs <- MCNeeds
    SampleUsers = {"ana", "bruno"}
    SampleGames = {"knot", "large", "maze"}
    AddressOf <- MCAddressOf
    Addresses = {"ana", "bruno", "clara"}
    Typed = {"password", "other"}
PROPERTIES
    OwnersSignIn
