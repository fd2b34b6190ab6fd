CONSTANTS
    Strategy = "detached"
    entry = "engine"
    Entries = {"engine"}
    Names = {"srv", "alias"}
    Texts = {"v1", "v2", "edited"}
    Descriptors <- AllDescriptors
SPECIFICATION Spec
INVARIANT TogglesAreInverse
PROPERTY TouchesOnlyOwned NoSelfInflictedDrift
