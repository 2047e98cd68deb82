SPECIFICATION FairSpec
CONSTANTS
  MaxInput = 3
  MaxLinks = 3
  MaxOuts = 2
PROPERTIES OpsLand NeverBackwards
